---- MODULE Spec2Model ----
(***************************************************************************)
(* Store-backed Merkle tree of trees/merkle-tree/interview-exam-2.         *)
(*                                                                         *)
(* Buffers are sequences of words.  A word is 32 bytes: either raw bytes   *)
(* <<"raw", n>> (32 bytes of value n) or a SHA-256 digest <<"sha", buf>>   *)
(* written as the term of the buffer it digests, so that the digest is     *)
(* collision free.  The 4-byte little-endian depth field of the metadata   *)
(* record is the word <<"u32le", b0, b1, b2, b3>>.                         *)
(***************************************************************************)
EXTENDS Integers, Sequences, FiniteSets, TLC

VARIABLES db, tree, result, ghost, nOps, calls, ptree, sol

vars == <<db, tree, result, ghost, nOps, calls, ptree, sol>>

\* calls: the updateElement / getHashPath / new calls in flight (stepwise specification)
\* ptree: the template MerkleTree over string leaves and its last verifyProof call
\* sol:   the run of the TestMerkleProof constructor
others == <<calls, ptree, sol>>

----------------------------------------------------------------------------
(* Bounds of the exploration *)

MaxD == 2          \* deepest tree that is opened
MaxOps == 3        \* calls (new, updateElement, getHashPath) in one behaviour

----------------------------------------------------------------------------
(* Program constants *)

MAX_DEPTH == 32
LEAF_BYTES == 64

----------------------------------------------------------------------------
(* Buffers *)

ZeroWord == <<"raw", 0>>
OneWord == <<"raw", 1>>

WordLen(w) == IF w[1] = "u32le" THEN 4 ELSE 32

RECURSIVE ByteLen(_)
ByteLen(buf) == IF buf = <<>> THEN 0 ELSE WordLen(Head(buf)) + ByteLen(Tail(buf))

\* Buffer.alloc(n) for n a multiple of 32: n zero bytes
Alloc(n) == [i \in 1..(n \div 32) |-> ZeroWord]

\* Buffer.concat([lhs, rhs]) of two 32-byte buffers
Concat(lhs, rhs) == <<lhs, rhs>>

\* buf.writeUInt32LE(n) / buf.readUInt32LE()
WriteUInt32LE(n) ==
    <<"u32le", n % 256, (n \div 256) % 256, (n \div 65536) % 256, (n \div 16777216) % 256>>

ReadUInt32LE(w) == w[2] + 256 * w[3] + 65536 * w[4] + 16777216 * w[5]

----------------------------------------------------------------------------
(* Sha256Hasher: hash(data) is the SHA-256 digest of data, compress(lhs, rhs)  *)
(* the SHA-256 digest of the 64 bytes lhs || rhs.  Both digest with the same  *)
(* function, so hash(v) of a 64-byte value v = l || r is compress(l, r).      *)

Hash(data) == <<"sha", data>>

Compress(lhs, rhs) == Hash(Concat(lhs, rhs))

----------------------------------------------------------------------------
(* LevelUp store: a function from keys to buffers *)

NameKey(name) == <<"name", name>>

Has(d, k) == k \in DOMAIN d

\* db.get(k).catch(() => Buffer.alloc(0))
Get(d, k) == IF Has(d, k) THEN d[k] ELSE <<>>

Put(d, k, v) == [x \in (DOMAIN d) \cup {k} |-> IF x = k THEN v ELSE d[x]]

\* the store without the record under k (the tree itself never deletes)
Del(d, k) == [x \in (DOMAIN d) \ {k} |-> d[x]]

EmptyDb == [x \in {} |-> <<>>]

NodeKeys(d) == {k \in DOMAIN d : k[1] = "sha"}

----------------------------------------------------------------------------
(* MerkleTree instance *)

NoTree == [open |-> FALSE, name |-> "", depth |-> 0, root |-> ZeroWord]

\* constructor(db, name, depth, root?): TRUE when it does not throw 'Bad depth'
\* the lower limit of the depth check is off by one
constructorOk_zero(depth) == depth >= 0 /\ depth <= MAX_DEPTH

constructorOk(depth) == depth >= 1 /\ depth <= MAX_DEPTH

constructor(name, depth, root) ==
    [open |-> TRUE, name |-> name, depth |-> depth, root |-> root]

getRoot(t) == t.root

isLeftNode(index, layer) ==
    IF layer >= 1
    THEN (index \div (2 ^ (layer - 1))) % 2 = 0
    ELSE (index * (2 ^ (1 - layer))) % 2 = 0

\* writeMetaData(): db.put(name, root || depth as u32 LE)
writeMetaData(d, t) ==
    Put(d, NameKey(t.name), <<t.root, WriteUInt32LE(t.depth)>>)

\* the loop of createEmptyTree, i iterations left
RECURSIVE createEmptyLoop(_, _, _)
createEmptyLoop(d, defaultNode, left) ==
    IF left <= 0
    THEN [db |-> d, node |-> defaultNode]
    ELSE LET parent == Compress(defaultNode, defaultNode)
         IN createEmptyLoop(Put(d, parent, Concat(defaultNode, defaultNode)), parent, left - 1)

\* the loop stops one level short of the root
createEmptyTree_short(d, t) ==
    LET r == createEmptyLoop(d, Hash(Alloc(LEAF_BYTES)), t.depth - 1)
        t2 == [t EXCEPT !.root = r.node]
    IN [db |-> writeMetaData(r.db, t2), tree |-> t2]

createEmptyTree(d, t) ==
    LET r == createEmptyLoop(d, Hash(Alloc(LEAF_BYTES)), t.depth)
        t2 == [t EXCEPT !.root = r.node]
    IN [db |-> writeMetaData(r.db, t2), tree |-> t2]

\* restoring takes the caller's depth instead of the stored one
new_callerDepth(d, t, name, depth) ==
    IF Has(d, NameKey(name))
    THEN LET meta == d[NameKey(name)]
             root == meta[1]
         IN IF constructorOk(depth)
            THEN [ok |-> TRUE, db |-> d, tree |-> constructor(name, depth, root)]
            ELSE [ok |-> FALSE, db |-> d, tree |-> t]
    ELSE IF constructorOk(depth)
         THEN LET r == createEmptyTree(d, constructor(name, depth, Alloc(32)[1]))
              IN [ok |-> TRUE, db |-> r.db, tree |-> r.tree]
         ELSE [ok |-> FALSE, db |-> d, tree |-> t]

\* static async new(db, name, depth)
new(d, t, name, depth) ==
    IF Has(d, NameKey(name))
    THEN LET meta == d[NameKey(name)]
             root == meta[1]
             sdepth == ReadUInt32LE(meta[2])
         IN IF constructorOk(sdepth)
            THEN [ok |-> TRUE, db |-> d, tree |-> constructor(name, sdepth, root)]
            ELSE [ok |-> FALSE, db |-> d, tree |-> t]
    ELSE IF constructorOk(depth)
         THEN LET r == createEmptyTree(d, constructor(name, depth, Alloc(32)[1]))
              IN [ok |-> TRUE, db |-> r.db, tree |-> r.tree]
         ELSE [ok |-> FALSE, db |-> d, tree |-> t]

\* The result records, next to the returned hash and the store after the puts: the layer
\* at which the descent ended (term), the number of node records put (puts), and whether
\* it ended on a record that is neither absent nor 64 bytes (bad).
RECURSIVE updateElementRecursively(_, _, _, _, _, _)

\* the right-hand branch stores the children in the wrong order
updateElementRecursively_swapped(d, root, parent, index, value, layer) ==
    LET data == Get(d, parent)
    IN IF ByteLen(data) = 0
       THEN [ret |-> Hash(value), db |-> d, term |-> layer, puts |-> 0, bad |-> FALSE]
       ELSE IF ByteLen(data) = 64
       THEN LET leftNode == data[1]
                rightNode == data[2]
            IN IF isLeftNode(index, layer)
               THEN LET sub == updateElementRecursively(d, root, leftNode, index, value, layer - 1)
                        newParent == Compress(sub.ret, rightNode)
                    IN [ret |-> newParent,
                        db |-> Put(sub.db, newParent, Concat(sub.ret, rightNode)),
                        term |-> sub.term, puts |-> sub.puts + 1, bad |-> sub.bad]
               ELSE LET sub == updateElementRecursively(d, root, rightNode, index, value, layer - 1)
                        newParent == Compress(leftNode, sub.ret)
                    IN [ret |-> newParent,
                        db |-> Put(sub.db, newParent, Concat(sub.ret, leftNode)),
                        term |-> sub.term, puts |-> sub.puts + 1, bad |-> sub.bad]
       ELSE [ret |-> root, db |-> d, term |-> layer, puts |-> 0, bad |-> TRUE]

\* the new parent replaces the record of the old one instead of being added
updateElementRecursively_inPlace(d, root, parent, index, value, layer) ==
    LET data == Get(d, parent)
    IN IF ByteLen(data) = 0
       THEN [ret |-> Hash(value), db |-> d, term |-> layer, puts |-> 0, bad |-> FALSE]
       ELSE IF ByteLen(data) = 64
       THEN LET leftNode == data[1]
                rightNode == data[2]
            IN IF isLeftNode(index, layer)
               THEN LET sub == updateElementRecursively(d, root, leftNode, index, value, layer - 1)
                        newParent == Compress(sub.ret, rightNode)
                    IN [ret |-> newParent,
                        db |-> Put(Del(sub.db, parent), newParent, Concat(sub.ret, rightNode)),
                        term |-> sub.term, puts |-> sub.puts + 1, bad |-> sub.bad]
               ELSE LET sub == updateElementRecursively(d, root, rightNode, index, value, layer - 1)
                        newParent == Compress(leftNode, sub.ret)
                    IN [ret |-> newParent,
                        db |-> Put(Del(sub.db, parent), newParent, Concat(leftNode, sub.ret)),
                        term |-> sub.term, puts |-> sub.puts + 1, bad |-> sub.bad]
       ELSE [ret |-> root, db |-> d, term |-> layer, puts |-> 0, bad |-> TRUE]

updateElementRecursively(d, root, parent, index, value, layer) ==
    LET data == Get(d, parent)
    IN IF ByteLen(data) = 0
       THEN [ret |-> Hash(value), db |-> d, term |-> layer, puts |-> 0, bad |-> FALSE]
       ELSE IF ByteLen(data) = 64
       THEN LET leftNode == data[1]
                rightNode == data[2]
            IN IF isLeftNode(index, layer)
               THEN LET sub == updateElementRecursively(d, root, leftNode, index, value, layer - 1)
                        newParent == Compress(sub.ret, rightNode)
                    IN [ret |-> newParent,
                        db |-> Put(sub.db, newParent, Concat(sub.ret, rightNode)),
                        term |-> sub.term, puts |-> sub.puts + 1, bad |-> sub.bad]
               ELSE LET sub == updateElementRecursively(d, root, rightNode, index, value, layer - 1)
                        newParent == Compress(leftNode, sub.ret)
                    IN [ret |-> newParent,
                        db |-> Put(sub.db, newParent, Concat(leftNode, sub.ret)),
                        term |-> sub.term, puts |-> sub.puts + 1, bad |-> sub.bad]
       ELSE [ret |-> root, db |-> d, term |-> layer, puts |-> 0, bad |-> TRUE]

\* async updateElement(index, value)
updateElement(d, t, index, value) ==
    LET r == updateElementRecursively(d, t.root, t.root, index, value, t.depth)
        t2 == [t EXCEPT !.root = r.ret]
    IN [ok |-> TRUE, db |-> writeMetaData(r.db, t2), tree |-> t2, ret |-> t2.root]

\* async updateElement(index, value) when the db.put of writeMetaData rejects: the node
\* records are in the store, this.root is assigned, the metadata record is not written
updateElementPutFails(d, t, index, value) ==
    LET r == updateElementRecursively(d, t.root, t.root, index, value, t.depth)
        t2 == [t EXCEPT !.root = r.ret]
    IN [ok |-> FALSE, db |-> r.db, tree |-> t2, ret |-> ZeroWord]

\* the loop of getHashPath: i counts the iterations left, hashPath is in collection order
RECURSIVE getHashPathLoop(_, _, _, _, _, _)
getHashPathLoop(d, index, currentNode, layer, i, hashPath) ==
    IF i < 0
    THEN hashPath
    ELSE LET data == Get(d, currentNode)
         IN IF ByteLen(data) = 64
            THEN getHashPathLoop(d, index,
                                 IF isLeftNode(index, layer) THEN data[1] ELSE data[2],
                                 layer - 1, i - 1,
                                 Append(hashPath, <<data[1], data[2]>>))
            ELSE getHashPathLoop(d, index, currentNode, layer - 1, i - 1, hashPath)

Reverse(s) == [k \in 1..Len(s) |-> s[Len(s) + 1 - k]]

\* async getHashPath(index)
getHashPath(d, t, index) ==
    [ok |-> TRUE, path |-> Reverse(getHashPathLoop(d, index, t.root, t.depth, t.depth - 1, <<>>))]

----------------------------------------------------------------------------
(* Inputs *)

Names == {"a", "b"}

Depths == {0} \cup (1..MaxD) \cup {MAX_DEPTH + 1}

ZeroBlock == Alloc(LEAF_BYTES)
OnesBlock == <<OneWord, OneWord>>
ShortValue == <<OneWord>>

DefaultLeaf == Hash(ZeroBlock)

\* 64-byte leaf values: plain blocks, and blocks that are the concatenation of two digests
Values64 == {OnesBlock, Concat(DefaultLeaf, DefaultLeaf), Concat(Hash(OnesBlock), DefaultLeaf)}

Values == Values64 \cup {ShortValue}

\* the indices tried on a tree of the given depth: in range, one below, one above
Indices(depth) == (-1)..(2 ^ depth)

AllIndices == Indices(MaxD)

InRange(index, depth) == index >= 0 /\ index < 2 ^ depth

----------------------------------------------------------------------------
(* History of the calls made so far, per tree name *)

NoHistory == [created |-> FALSE, depth |-> 0, leaves |-> <<>>, clean |-> TRUE, lastRoot |-> ZeroWord]

NoResult ==
    [op |-> "none", ok |-> TRUE, fresh |-> FALSE, name |-> "", depth |-> 0, index |-> 0,
     value |-> <<>>, ret |-> ZeroWord, path |-> <<>>]

\* the calls that can be in flight at once
Slots == {1, 2}

IdleCall ==
    [op |-> "idle", pc |-> "idle", index |-> 0, value |-> <<>>, root0 |-> ZeroWord,
     node |-> ZeroWord, layer |-> 0, stack |-> <<>>, ret |-> ZeroWord, key |-> ZeroWord,
     val |-> <<>>, path |-> <<>>, i |-> 0, rootAtEnd |-> ZeroWord]

NoProof == [leaf |-> "", path |-> <<>>, siblings |-> <<>>]

NoPTree == [built |-> FALSE, leaves |-> {}, op |-> "none", proof |-> NoProof, verdict |-> FALSE]

NoSol == [pc |-> "idle", transactions |-> <<>>, hashes |-> <<>>, n |-> 0, offset |-> 0, i |-> 0]

Init ==
    /\ db = EmptyDb
    /\ tree = NoTree
    /\ result = NoResult
    /\ ghost = [n \in Names |-> NoHistory]
    /\ nOps = 0
    /\ calls = [s \in Slots |-> IdleCall]
    /\ ptree = NoPTree
    /\ sol = NoSol

New(name, depth) ==
    LET r == new(db, tree, name, depth)
    IN /\ nOps < MaxOps
       /\ db' = r.db
       /\ tree' = r.tree
       /\ result' = [NoResult EXCEPT !.op = "new", !.ok = r.ok, !.name = name,
                                     !.fresh = ~Has(db, NameKey(name)), !.depth = depth,
                                     !.ret = IF r.ok THEN r.tree.root ELSE ZeroWord]
       /\ ghost' = IF r.ok /\ ~Has(db, NameKey(name))
                   THEN [ghost EXCEPT ![name] =
                            [created |-> TRUE, depth |-> depth,
                             leaves |-> [i \in 1..(2 ^ depth) |-> ZeroBlock],
                             clean |-> TRUE, lastRoot |-> r.tree.root]]
                   ELSE ghost
       /\ nOps' = nOps + 1
       /\ UNCHANGED others

UpdateElement(index, value) ==
    /\ tree.open
    /\ index \in Indices(tree.depth)
    /\ nOps < MaxOps
    /\ LET r == updateElement(db, tree, index, value)
           h == ghost[tree.name]
           valid == InRange(index, tree.depth) /\ ByteLen(value) = LEAF_BYTES
       IN /\ db' = r.db
          /\ tree' = r.tree
          /\ result' = [NoResult EXCEPT !.op = "update", !.ok = r.ok, !.name = tree.name,
                                        !.index = index, !.value = value, !.ret = r.ret]
          /\ ghost' = [ghost EXCEPT ![tree.name] =
                          [h EXCEPT !.leaves = IF valid THEN [h.leaves EXCEPT ![index + 1] = value]
                                                        ELSE h.leaves,
                                    !.clean = h.clean /\ valid,
                                    !.lastRoot = r.ret]]
    /\ nOps' = nOps + 1
    /\ UNCHANGED others

GetHashPath(index) ==
    /\ tree.open
    /\ index \in Indices(tree.depth)
    /\ nOps < MaxOps
    /\ LET r == getHashPath(db, tree, index)
       IN result' = [NoResult EXCEPT !.op = "path", !.ok = r.ok, !.name = tree.name,
                                     !.index = index, !.path = r.path]
    /\ nOps' = nOps + 1
    /\ UNCHANGED <<db, tree, ghost>>
    /\ UNCHANGED others

Next ==
    \/ \E name \in Names, depth \in Depths : New(name, depth)
    \/ \E index \in AllIndices, value \in Values : UpdateElement(index, value)
    \/ \E index \in AllIndices : GetHashPath(index)

Spec == Init /\ [][Next]_vars

----------------------------------------------------------------------------
(* The tree on a store that fails: the store is handed to the tree by its caller, a     *)
(* record of it can be lost or cut short by whoever else holds it, and a put can reject. *)

Damages == {"lose", "truncate"}

StoreDamage(k, kind) ==
    /\ nOps < MaxOps
    /\ k \in NodeKeys(db)
    /\ ByteLen(db[k]) = 64
    /\ db' = IF kind = "lose" THEN Del(db, k) ELSE Put(db, k, <<db[k][1]>>)
    /\ result' = [NoResult EXCEPT !.op = "damage"]
    /\ nOps' = nOps + 1
    /\ UNCHANGED <<tree, ghost>>
    /\ UNCHANGED others

UpdateElementPutFails(index, value) ==
    /\ tree.open
    /\ InRange(index, tree.depth)
    /\ ByteLen(value) = LEAF_BYTES
    /\ nOps < MaxOps
    /\ LET r == updateElementPutFails(db, tree, index, value)
       IN /\ db' = r.db
          /\ tree' = r.tree
          /\ result' = [NoResult EXCEPT !.op = "update", !.ok = r.ok, !.name = tree.name,
                                        !.index = index, !.value = value]
    /\ nOps' = nOps + 1
    /\ UNCHANGED ghost
    /\ UNCHANGED others

NextFaults ==
    \/ Next
    \/ \E k \in NodeKeys(db), kind \in Damages : StoreDamage(k, kind)
    \/ \E index \in AllIndices, value \in Values : UpdateElementPutFails(index, value)

SpecFaults == Init /\ [][NextFaults]_vars

----------------------------------------------------------------------------
(* The same methods one store operation at a time.  A call in flight is a record: pc is  *)
(* the store operation it awaits ("get", "putNode", "putMeta"), key/val the record of a   *)
(* pending put, stack the frames of updateElementRecursively that wait for their child    *)
(* (side taken and untouched sibling), root0 the value of this.root read when the call    *)
(* started.  A step performs the awaited operation and runs the code up to the next await.*)

\* ascend with the put of the topmost node left out: the root goes to the instance and the
\* metadata without its record being written
ascend_skipsRootPut(c, t, ret) ==
    IF Len(c.stack) <= 1
    THEN LET top == IF c.stack = <<>>
                    THEN ret
                    ELSE IF c.stack[1].left THEN Compress(ret, c.stack[1].sibling)
                                            ELSE Compress(c.stack[1].sibling, ret)
         IN [call |-> [c EXCEPT !.pc = "putMeta", !.ret = top, !.key = NameKey(t.name),
                                !.val = <<top, WriteUInt32LE(t.depth)>>, !.stack = <<>>],
             tree |-> [t EXCEPT !.root = top]]
    ELSE LET f == c.stack[Len(c.stack)]
             l == IF f.left THEN ret ELSE f.sibling
             r == IF f.left THEN f.sibling ELSE ret
             newParent == Compress(l, r)
         IN [call |-> [c EXCEPT !.pc = "putNode", !.ret = newParent, !.key = newParent,
                                !.val = Concat(l, r),
                                !.stack = SubSeq(c.stack, 1, Len(c.stack) - 1)],
             tree |-> t]

\* the code that runs when updateElementRecursively returns ret to its caller: the parent
\* frame composes and puts its new node; the outermost caller, updateElement, assigns
\* this.root and calls writeMetaData
ascend(c, t, ret) ==
    IF c.stack = <<>>
    THEN [call |-> [c EXCEPT !.pc = "putMeta", !.ret = ret, !.key = NameKey(t.name),
                             !.val = <<ret, WriteUInt32LE(t.depth)>>],
          tree |-> [t EXCEPT !.root = ret]]
    ELSE LET f == c.stack[Len(c.stack)]
             l == IF f.left THEN ret ELSE f.sibling
             r == IF f.left THEN f.sibling ELSE ret
             newParent == Compress(l, r)
         IN [call |-> [c EXCEPT !.pc = "putNode", !.ret = newParent, !.key = newParent,
                                !.val = Concat(l, r),
                                !.stack = SubSeq(c.stack, 1, Len(c.stack) - 1)],
             tree |-> t]

\* updateElement(index, value) up to its first await
updateStart(t, index, value) ==
    [IdleCall EXCEPT !.op = "update", !.pc = "get", !.index = index, !.value = value,
                     !.root0 = t.root, !.node = t.root, !.layer = t.depth]

\* updateStep reading this.root when its first db.get runs instead of when the call started
updateStep_rereadsRoot(c, d, t) ==
    IF c.pc = "get"
    THEN LET data == Get(d, IF c.layer = t.depth THEN t.root ELSE c.node)
         IN IF ByteLen(data) = 0
            THEN LET a == ascend(c, t, Hash(c.value))
                 IN [call |-> a.call, tree |-> a.tree, db |-> d]
            ELSE IF ByteLen(data) = 64
            THEN LET left == isLeftNode(c.index, c.layer)
                 IN [call |-> [c EXCEPT !.stack = Append(@, [left |-> left,
                                                             sibling |-> IF left THEN data[2]
                                                                                 ELSE data[1]]),
                                        !.node = IF left THEN data[1] ELSE data[2],
                                        !.layer = @ - 1],
                     tree |-> t, db |-> d]
            ELSE LET a == ascend(c, t, t.root)
                 IN [call |-> a.call, tree |-> a.tree, db |-> d]
    ELSE IF c.pc = "putNode"
    THEN LET a == ascend(c, t, c.ret)
         IN [call |-> a.call, tree |-> a.tree, db |-> Put(d, c.key, c.val)]
    ELSE [call |-> [c EXCEPT !.pc = "done", !.ret = t.root, !.rootAtEnd = t.root],
          tree |-> t, db |-> Put(d, c.key, c.val)]

\* one store operation of updateElement and the code after it
updateStep(c, d, t) ==
    IF c.pc = "get"
    THEN LET data == Get(d, c.node)
         IN IF ByteLen(data) = 0
            THEN LET a == ascend(c, t, Hash(c.value))
                 IN [call |-> a.call, tree |-> a.tree, db |-> d]
            ELSE IF ByteLen(data) = 64
            THEN LET left == isLeftNode(c.index, c.layer)
                 IN [call |-> [c EXCEPT !.stack = Append(@, [left |-> left,
                                                             sibling |-> IF left THEN data[2]
                                                                                 ELSE data[1]]),
                                        !.node = IF left THEN data[1] ELSE data[2],
                                        !.layer = @ - 1],
                     tree |-> t, db |-> d]
            ELSE LET a == ascend(c, t, t.root)
                 IN [call |-> a.call, tree |-> a.tree, db |-> d]
    ELSE IF c.pc = "putNode"
    THEN LET a == ascend(c, t, c.ret)
         IN [call |-> a.call, tree |-> a.tree, db |-> Put(d, c.key, c.val)]
    ELSE [call |-> [c EXCEPT !.pc = "done", !.ret = t.root, !.rootAtEnd = t.root],
          tree |-> t, db |-> Put(d, c.key, c.val)]

\* getHashPath(index) up to its first await
pathStart(t, index) ==
    [IdleCall EXCEPT !.op = "path", !.pc = "get", !.index = index, !.root0 = t.root,
                     !.node = t.root, !.layer = t.depth, !.i = t.depth - 1]

\* pathStep reading this.root when its first db.get runs instead of when the call started
pathStep_rereadsRoot(c, d, t) ==
    LET data == Get(d, IF c.layer = t.depth THEN t.root ELSE c.node)
        c2 == IF ByteLen(data) = 64
              THEN [c EXCEPT !.path = Append(@, <<data[1], data[2]>>),
                             !.node = IF isLeftNode(c.index, c.layer) THEN data[1] ELSE data[2],
                             !.layer = @ - 1, !.i = @ - 1]
              ELSE [c EXCEPT !.layer = @ - 1, !.i = @ - 1]
    IN IF c2.i < 0
       THEN [c2 EXCEPT !.pc = "done", !.path = Reverse(c2.path), !.rootAtEnd = t.root]
       ELSE c2

\* one db.get of getHashPath and the rest of the loop body
pathStep(c, d, t) ==
    LET data == Get(d, c.node)
        c2 == IF ByteLen(data) = 64
              THEN [c EXCEPT !.path = Append(@, <<data[1], data[2]>>),
                             !.node = IF isLeftNode(c.index, c.layer) THEN data[1] ELSE data[2],
                             !.layer = @ - 1, !.i = @ - 1]
              ELSE [c EXCEPT !.layer = @ - 1, !.i = @ - 1]
    IN IF c2.i < 0
       THEN [c2 EXCEPT !.pc = "done", !.path = Reverse(c2.path), !.rootAtEnd = t.root]
       ELSE c2

\* new(db, name, depth) on a store without metadata for name, up to the first put of
\* createEmptyTree; the instance is handed out (open) when new returns
newStart(name, depth) ==
    LET defaultNode == Hash(Alloc(LEAF_BYTES))
        parent == Compress(defaultNode, defaultNode)
    IN [call |-> [IdleCall EXCEPT !.op = "new", !.pc = "putNode", !.key = parent,
                                  !.val = Concat(defaultNode, defaultNode), !.i = 0],
        tree |-> [constructor(name, depth, Alloc(32)[1]) EXCEPT !.open = FALSE]]

\* one db.put of createEmptyTree / writeMetaData and the code after it
newStep(c, d, t) ==
    IF c.pc = "putNode"
    THEN LET defaultNode == c.key
             parent == Compress(defaultNode, defaultNode)
         IN IF c.i + 1 < t.depth
            THEN [call |-> [c EXCEPT !.key = parent, !.val = Concat(defaultNode, defaultNode),
                                     !.i = @ + 1],
                  tree |-> t, db |-> Put(d, c.key, c.val)]
            ELSE [call |-> [c EXCEPT !.pc = "putMeta", !.key = NameKey(t.name),
                                     !.val = <<defaultNode, WriteUInt32LE(t.depth)>>,
                                     !.i = @ + 1],
                  tree |-> [t EXCEPT !.root = defaultNode], db |-> Put(d, c.key, c.val)]
    ELSE [call |-> [c EXCEPT !.pc = "done", !.ret = t.root, !.rootAtEnd = t.root],
          tree |-> [t EXCEPT !.open = TRUE], db |-> Put(d, c.key, c.val)]

\* inputs of the stepwise specification: one tree, its leaves, a plain value
StepName == "a"
StepIndices(depth) == 0..(2 ^ depth - 1)
StepValues == {OnesBlock}

Free(s) == calls[s].pc \in {"idle", "done"}
Running(s) == ~Free(s)

\* a call takes the lowest free slot
Takes(s) == Free(s) /\ \A s2 \in Slots : s2 < s => Running(s2)

StartNew(s, depth) ==
    /\ ~tree.open
    /\ \A s2 \in Slots : Free(s2)
    /\ Takes(s)
    /\ ~Has(db, NameKey(StepName))
    /\ constructorOk(depth)
    /\ nOps < MaxOps
    /\ LET r == newStart(StepName, depth)
       IN /\ calls' = [calls EXCEPT ![s] = r.call]
          /\ tree' = r.tree
    /\ nOps' = nOps + 1
    /\ UNCHANGED <<db, result, ghost, ptree, sol>>

StartUpdateElement(s, index, value) ==
    /\ tree.open
    /\ Takes(s)
    /\ index \in StepIndices(tree.depth)
    /\ nOps < MaxOps
    /\ calls' = [calls EXCEPT ![s] = updateStart(tree, index, value)]
    /\ nOps' = nOps + 1
    /\ UNCHANGED <<db, tree, result, ghost, ptree, sol>>

StartGetHashPath(s, index) ==
    /\ tree.open
    /\ Takes(s)
    /\ index \in StepIndices(tree.depth)
    /\ nOps < MaxOps
    /\ calls' = [calls EXCEPT ![s] = pathStart(tree, index)]
    /\ nOps' = nOps + 1
    /\ UNCHANGED <<db, tree, result, ghost, ptree, sol>>

NewStep(s) ==
    /\ Running(s)
    /\ calls[s].op = "new"
    /\ LET r == newStep(calls[s], db, tree)
       IN /\ calls' = [calls EXCEPT ![s] = r.call]
          /\ tree' = r.tree
          /\ db' = r.db
    /\ UNCHANGED <<result, ghost, nOps, ptree, sol>>

UpdateElementStep(s) ==
    /\ Running(s)
    /\ calls[s].op = "update"
    /\ LET r == updateStep(calls[s], db, tree)
       IN /\ calls' = [calls EXCEPT ![s] = r.call]
          /\ tree' = r.tree
          /\ db' = r.db
    /\ UNCHANGED <<result, ghost, nOps, ptree, sol>>

GetHashPathStep(s) ==
    /\ Running(s)
    /\ calls[s].op = "path"
    /\ calls' = [calls EXCEPT ![s] = pathStep(calls[s], db, tree)]
    /\ UNCHANGED <<db, tree, result, ghost, nOps, ptree, sol>>

NextSteps ==
    \/ \E s \in Slots, depth \in 1..MaxD : StartNew(s, depth)
    \/ \E s \in Slots, index \in AllIndices, value \in StepValues : StartUpdateElement(s, index, value)
    \/ \E s \in Slots, index \in AllIndices : StartGetHashPath(s, index)
    \/ \E s \in Slots : NewStep(s)
    \/ \E s \in Slots : UpdateElementStep(s)
    \/ \E s \in Slots : GetHashPathStep(s)

SpecSteps == Init /\ [][NextSteps]_vars

----------------------------------------------------------------------------
(* The template MerkleTree over string leaves (IMerkleTree) *)

LeafNames == {"leaf1", "leaf2", "leaf3"}

NoPaths == <<"I have no paths :(">>
NoSiblings == <<"I have no siblings :(">>

\* getProof(leaf)
getProof(leaf) == [leaf |-> "Sorry", path |-> NoPaths, siblings |-> NoSiblings]

\* verifyProof(proof)
verifyProof(proof) == TRUE

Proofs ==
    [leaf : LeafNames \cup {"Sorry"}, path : {<<>>, NoPaths}, siblings : {<<>>, NoSiblings}]

\* new MerkleTree(leaves): the constructor returns without keeping anything; ptree.leaves
\* remembers what the tree was built from
TemplateNew(leaves) ==
    /\ ~ptree.built
    /\ ptree' = [NoPTree EXCEPT !.built = TRUE, !.leaves = leaves]
    /\ UNCHANGED <<db, tree, result, ghost, nOps, calls, sol>>

GetProof(leaf) ==
    /\ ptree.built
    /\ ptree' = [ptree EXCEPT !.op = "proof", !.proof = getProof(leaf), !.verdict = FALSE]
    /\ UNCHANGED <<db, tree, result, ghost, nOps, calls, sol>>

VerifyProof(proof) ==
    /\ ptree.built
    /\ ptree' = [ptree EXCEPT !.op = "verify", !.proof = proof, !.verdict = verifyProof(proof)]
    /\ UNCHANGED <<db, tree, result, ghost, nOps, calls, sol>>

NextProof ==
    \/ \E leaves \in SUBSET LeafNames : TemplateNew(leaves)
    \/ \E leaf \in LeafNames : GetProof(leaf)
    \/ \E proof \in Proofs : VerifyProof(proof)

SpecProof == Init /\ [][NextProof]_vars

----------------------------------------------------------------------------
(* TestMerkleProof.sol: the constructor, one loop iteration a step.  Solidity arrays *)
(* count from 0: hashes[k] is sol.hashes[k + 1].                                      *)

TxStrings == {"Alice -> Bob", "Bob -> Dave", "carol -> alice", "dave -> bob"}

NTransactions == 4

\* keccak256(abi.encodePacked(...))
Keccak(data) == <<"keccak", data>>

\* the deployment starts; the contents of the 4 transactions are drawn from TxStrings
Deploy(transactions) ==
    /\ sol.pc = "idle"
    /\ sol' = [NoSol EXCEPT !.pc = "leaves", !.transactions = transactions]
    /\ UNCHANGED <<db, tree, result, ghost, nOps, calls, ptree>>

\* for (i = 0; i < transactions.length; i++) hashes.push(keccak256(transactions[i]))
HashLeaf ==
    /\ sol.pc = "leaves"
    /\ sol' = IF sol.i < Len(sol.transactions)
              THEN [sol EXCEPT !.hashes = Append(@, Keccak(<<sol.transactions[sol.i + 1]>>)),
                               !.i = @ + 1]
              ELSE [sol EXCEPT !.pc = "while", !.n = Len(sol.transactions), !.offset = 0]
    /\ UNCHANGED <<db, tree, result, ghost, nOps, calls, ptree>>

\* while (n > 0)
WhileTest ==
    /\ sol.pc = "while"
    /\ sol' = IF sol.n > 0
              THEN [sol EXCEPT !.pc = "for", !.i = 0]
              ELSE [sol EXCEPT !.pc = "deployed"]
    /\ UNCHANGED <<db, tree, result, ghost, nOps, calls, ptree>>

\* for (i = 0; i < n; i += 2) hashes.push(keccak256(hashes[offset + i], hashes[offset + i + 1]))
\* then offset += n; n = n / 2.  An index past the end of hashes reverts the deployment.
ForStep ==
    /\ sol.pc = "for"
    /\ sol' = IF sol.i < sol.n
              THEN IF sol.offset + sol.i + 1 >= Len(sol.hashes)
                   THEN [sol EXCEPT !.pc = "reverted", !.hashes = <<>>]
                   ELSE [sol EXCEPT !.hashes = Append(@, Keccak(<<sol.hashes[sol.offset + sol.i + 1],
                                                                  sol.hashes[sol.offset + sol.i + 2]>>)),
                                    !.i = @ + 2]
              ELSE [sol EXCEPT !.pc = "while", !.offset = @ + sol.n, !.n = @ \div 2]
    /\ UNCHANGED <<db, tree, result, ghost, nOps, calls, ptree>>

\* getRoot(): hashes[hashes.length - 1]
getRootOfHashes(hashes) == hashes[Len(hashes)]

NextSol ==
    \/ \E transactions \in [1..NTransactions -> TxStrings] : Deploy(transactions)
    \/ HashLeaf
    \/ WhileTest
    \/ ForStep

SpecSol == Init /\ [][NextSol]_vars

----------------------------------------------------------------------------
(* Reference definitions used by the properties *)

\* the Merkle root of a non-empty power-of-two row of hashes, leftmost first
RECURSIVE RefRootOfRow(_)
RefRootOfRow(row) ==
    IF Len(row) = 1
    THEN row[1]
    ELSE RefRootOfRow([i \in 1..(Len(row) \div 2) |-> Compress(row[2 * i - 1], row[2 * i])])

RefRoot(leaves) == RefRootOfRow([i \in 1..Len(leaves) |-> Hash(leaves[i])])

\* hash(64 zero bytes) compressed with itself depth times
RECURSIVE DefaultRoot(_)
DefaultRoot(depth) ==
    IF depth = 0
    THEN Hash(ZeroBlock)
    ELSE Compress(DefaultRoot(depth - 1), DefaultRoot(depth - 1))

Bit(index, k) == (index \div (2 ^ k)) % 2

\* fold a leaf-to-root hash path upward from a leaf hash
RECURSIVE FoldPath(_, _, _, _)
FoldPath(path, current, index, k) ==
    IF k > Len(path)
    THEN current
    ELSE FoldPath(path,
                  IF Bit(index, k - 1) = 0
                  THEN Compress(current, path[k][2])
                  ELSE Compress(path[k][1], current),
                  index, k + 1)

History == ghost[tree.name]

----------------------------------------------------------------------------
(* Properties *)

\* C1: after opening an empty tree and any sequence of in-range updateElement calls with
\* 64-byte values, getRoot() is the reference Merkle root of the leaf vector in which
\* leaf i is hash(last value written at i) or hash(64 zero bytes).
C1_RootIsReferenceRoot ==
    (tree.open /\ History.clean) => getRoot(tree) = RefRoot(History.leaves)

\* C2: for every in-range index j, getHashPath(j) returns exactly depth pairs, leaf-to-root,
\* and folding them upward from the current leaf hash at j by the bits of j gives getRoot().
C2_HashPathReconstructsRoot ==
    (tree.open /\ History.clean) =>
        \A j \in 0..(2 ^ tree.depth - 1) :
            LET r == getHashPath(db, tree, j)
            IN /\ r.ok
               /\ Len(r.path) = tree.depth
               /\ FoldPath(r.path, Hash(History.leaves[j + 1]), j, 1) = getRoot(tree)

\* C3: opening a tree with a depth in 1..32 on a store without metadata for the name
\* gives getRoot() = hash(64 zero bytes) compressed with itself depth times.
C3_EmptyRootIsDefaultRoot ==
    (result.op = "new" /\ result.fresh /\ result.depth \in 1..MAX_DEPTH) =>
        /\ result.ok
        /\ tree.open
        /\ tree.name = result.name
        /\ tree.depth = result.depth
        /\ getRoot(tree) = DefaultRoot(result.depth)

C3_Witness ==
    /\ result.op = "new"
    /\ result.fresh
    /\ result.ok
    /\ result.depth = MaxD
    /\ getRoot(tree) = DefaultRoot(MaxD)
    /\ NodeKeys(db) # {}

C5_UpdateIdempotent ==
    (tree.open /\ History.clean) =>
        \A i \in 0..(2 ^ tree.depth - 1) : \A v \in Values64 :
            LET u1 == updateElement(db, tree, i, v)
                u2 == updateElement(u1.db, u1.tree, i, v)
            IN /\ u2.ret = u1.ret
               /\ getRoot(u2.tree) = getRoot(u1.tree)

\* C6: getHashPath(index) with index < 0 or index >= 2^depth fails, returns no hash path
\* and changes neither the store nor the root.
C6_GetHashPathRejectsOutOfRange ==
    [][\A index \in AllIndices :
         (GetHashPath(index) /\ ~InRange(index, tree.depth)) =>
             /\ ~result'.ok
             /\ result'.path = <<>>
             /\ db' = db
             /\ tree' = tree]_vars

\* C7: updateElement(index, value) with index out of range or value not exactly 64 bytes
\* fails and leaves the node records, the metadata and getRoot() as before the call.
C7_UpdateElementValidatesInputs ==
    [][\A index \in AllIndices : \A value \in Values :
         (UpdateElement(index, value)
            /\ (~InRange(index, tree.depth) \/ ByteLen(value) # LEAF_BYTES)) =>
             /\ ~result'.ok
             /\ db' = db
             /\ getRoot(tree') = getRoot(tree)]_vars

\* C8: with no metadata stored for the name, new with a depth outside 1..32 fails and
\* writes nothing to the store: no default node record, no metadata record.
C8_BadDepthWritesNothing ==
    [][\A name \in Names : \A depth \in Depths :
         (New(name, depth) /\ ~Has(db, NameKey(name)) /\ depth \notin 1..MAX_DEPTH) =>
             /\ ~result'.ok
             /\ db' = db
             /\ tree' = tree]_vars

C8_Witness ==
    /\ result.op = "new"
    /\ result.fresh
    /\ ~result.ok
    /\ result.depth > MAX_DEPTH
    /\ ~Has(db, NameKey(result.name))
    /\ DOMAIN db # {}

\* C9: new on a name that has metadata returns a tree with the stored depth, whatever depth
\* the caller passes, whose getRoot() is the root returned by the last update (the empty
\* root if there was none), and writes nothing to the store.
C9_RestoreRoundTrips ==
    [][\A name \in Names : \A depth \in Depths :
         (New(name, depth) /\ Has(db, NameKey(name))) =>
             /\ result'.ok
             /\ tree'.open
             /\ tree'.name = name
             /\ tree'.depth = ghost[name].depth
             /\ getRoot(tree') = ghost[name].lastRoot
             /\ db' = db]_vars

C9_Witness ==
    /\ result.op = "new"
    /\ ~result.fresh
    /\ result.ok
    /\ result.depth # tree.depth
    /\ tree.depth = History.depth
    /\ getRoot(tree) = History.lastRoot
    /\ getRoot(tree) # DefaultRoot(tree.depth)

\* C10: every record of the store other than the metadata records is 64 bytes and its key
\* is compress(left, right) of the two 32-byte halves of its value.
C10_ContentAddressed ==
    \A k \in DOMAIN db :
        k[1] # "name" =>
            /\ ByteLen(db[k]) = 64
            /\ k = Compress(db[k][1], db[k][2])

C10_Witness ==
    /\ result.op = "update"
    /\ InRange(result.index, tree.depth)
    /\ Cardinality(NodeKeys(db)) > tree.depth
    /\ \E k \in NodeKeys(db) : db[k][1] # db[k][2]

\* C18: updateElement changes and deletes no node record: every node record of the store
\* before the call is there with the same value after it.
C18_CopyOnWrite ==
    [][(tree.open /\ nOps' = nOps + 1 /\ result'.op = "update") =>
           \A k \in NodeKeys(db) : Has(db', k) /\ db'[k] = db[k]]_vars

C18_Witness ==
    /\ result.op = "update"
    /\ nOps = MaxOps
    /\ getRoot(tree) # DefaultRoot(tree.depth)
    /\ Has(db, DefaultRoot(tree.depth))
    /\ \E k \in NodeKeys(db) : k # getRoot(tree) /\ db[k][1] # db[k][2]

\* C19: for every tree state reached by valid calls, in-range index and 64-byte value,
\* the descent of updateElementRecursively ends on the absent record at layer 0 and the
\* call puts exactly depth node records.
C19_DescentIsDepthLevels ==
    (tree.open /\ History.clean) =>
        \A i \in 0..(2 ^ tree.depth - 1) : \A v \in Values64 :
            LET r == updateElementRecursively(db, tree.root, tree.root, i, v, tree.depth)
            IN /\ ~r.bad
               /\ r.term = 0
               /\ r.puts = tree.depth

\* the root persisted in the metadata record of the open tree
PersistedRoot(d, t) == d[NameKey(t.name)][1]

\* C12: when the metadata put of updateElement fails after the node puts, getRoot() and
\* the persisted root are both the root from before the call.
C12_FailedCommitKeepsOldRoot ==
    [][\A index \in AllIndices : \A value \in Values :
         UpdateElementPutFails(index, value) =>
             /\ getRoot(tree') = getRoot(tree)
             /\ PersistedRoot(db', tree') = getRoot(tree)]_vars

\* C13: an updateElement that visits a record that is neither absent nor 64 bytes fails,
\* writes no node record and leaves getRoot() and the metadata as before the call.
C13_CorruptNodeFails ==
    [][\A index \in AllIndices : \A value \in Values :
         (UpdateElement(index, value)
            /\ InRange(index, tree.depth) /\ ByteLen(value) = LEAF_BYTES
            /\ updateElementRecursively(db, tree.root, tree.root, index, value, tree.depth).bad) =>
             /\ ~result'.ok
             /\ db' = db
             /\ getRoot(tree') = getRoot(tree)]_vars

\* C14: getHashPath(index) returns exactly depth pairs for every in-range index, also
\* when a visited key has no record in the store.
C14_HashPathIsFullLength ==
    (result.op = "path" /\ InRange(result.index, tree.depth)) =>
        Len(result.path) = tree.depth

\* C15: the result of verifyProof(proof) depends on the proof: a proof for a leaf that was
\* never in the tree does not verify.
C15_VerifyProofRejectsForeignLeaf ==
    (ptree.op = "verify" /\ ptree.proof.leaf \notin ptree.leaves) => ptree.verdict = FALSE

\* C20: the constructor of TestMerkleProof never reads hashes out of bounds, and ends with
\* 7 hashes of which the last, returned by getRoot(), is the hash of the two level-1 nodes.
C20_ConstructorStaysInBounds ==
    /\ sol.pc # "reverted"
    /\ sol.pc = "deployed" =>
          /\ Len(sol.hashes) = 7
          /\ getRootOfHashes(sol.hashes) = Keccak(<<sol.hashes[5], sol.hashes[6]>>)

\* every record from key down layer levels is in the store with both child hashes
RECURSIVE Persisted(_, _, _)
Persisted(d, key, layer) ==
    \/ layer = 0
    \/ /\ Has(d, key)
       /\ ByteLen(d[key]) = 64
       /\ Persisted(d, d[key][1], layer - 1)
       /\ Persisted(d, d[key][2], layer - 1)

\* C11: between any two store operations of new and of updateElement, a metadata record
\* in the store names a root whose node records are all in the store, depth levels down.
C11_MetadataRootIsPersisted ==
    Has(db, NameKey(StepName)) =>
        Persisted(db, db[NameKey(StepName)][1], ReadUInt32LE(db[NameKey(StepName)][2]))

C11_Witness ==
    \E s \in Slots :
        /\ calls[s].op = "update"
        /\ calls[s].pc = "putNode"
        /\ Len(calls[s].stack) < tree.depth - 1
        /\ Has(db, NameKey(StepName))
        /\ PersistedRoot(db, tree) = calls[s].root0
        /\ ~Has(db, calls[s].key)
        /\ Persisted(db, PersistedRoot(db, tree), tree.depth)

\* the pairs of a hash path, leaf level first, chain up to root along the bits of index
PathReconstructs(path, index, root) ==
    /\ Len(path) >= 1
    /\ Compress(path[Len(path)][1], path[Len(path)][2]) = root
    /\ \A k \in 1..(Len(path) - 1) :
          Compress(path[k][1], path[k][2]) = path[k + 1][Bit(index, k) + 1]

\* C17: a getHashPath whose reads interleave with updateElement calls returns depth pairs
\* that reconstruct the root this.root held when the getHashPath call started.
C17_HashPathOfRootSnapshot ==
    \A s \in Slots :
        (calls[s].op = "path" /\ calls[s].pc = "done") =>
            /\ Len(calls[s].path) = tree.depth
            /\ PathReconstructs(calls[s].path, calls[s].index, calls[s].root0)

C17_Witness ==
    \E s \in Slots :
        /\ calls[s].op = "path"
        /\ calls[s].pc = "done"
        /\ calls[s].rootAtEnd # calls[s].root0
        /\ tree.depth >= 2
        /\ Len(calls[s].path) = tree.depth
        /\ PathReconstructs(calls[s].path, calls[s].index, calls[s].root0)

\* two completed updateElement calls at different leaves that both started from the root
\* root0 and that each change it
Overlapped(a, b) ==
    /\ a.op = "update" /\ a.pc = "done"
    /\ b.op = "update" /\ b.pc = "done"
    /\ a.root0 = b.root0
    /\ a.index # b.index
    /\ updateElement(db, [tree EXCEPT !.root = a.root0], a.index, a.value).ret # a.root0
    /\ updateElement(db, [tree EXCEPT !.root = a.root0], b.index, b.value).ret # a.root0

\* the roots of the two updates applied alone to root0
AloneRoots(a, b) ==
    {updateElement(db, [tree EXCEPT !.root = a.root0], c.index, c.value).ret : c \in {a, b}}

\* the roots of the two updates applied to root0 one after the other, in both orders
SerialRoots(a, b) ==
    LET t0 == [tree EXCEPT !.root = a.root0]
        then(x, y) == LET r == updateElement(db, t0, x.index, x.value)
                      IN updateElement(r.db, r.tree, y.index, y.value).ret
    IN {then(a, b), then(b, a)}

LostUpdate(a, b) ==
    /\ getRoot(tree) \in AloneRoots(a, b)
    /\ PersistedRoot(db, tree) \in AloneRoots(a, b)
    /\ getRoot(tree) \notin SerialRoots(a, b)
    /\ PersistedRoot(db, tree) \notin SerialRoots(a, b)

\* C16: when two updateElement calls at different leaves overlap so that both start from
\* the same root, then after both returned getRoot() and the persisted root are the root
\* of one of the two updates alone, and not the root of the two updates in either order.
C16_OverlappingUpdatesLoseOne ==
    \A s1 \in Slots : \A s2 \in Slots \ {s1} :
        Overlapped(calls[s1], calls[s2]) => LostUpdate(calls[s1], calls[s2])

C16_Witness ==
    /\ Overlapped(calls[1], calls[2])
    /\ LostUpdate(calls[1], calls[2])
    /\ getRoot(tree) = PersistedRoot(db, tree)

====
